---------------------------- MODULE Spec2Model ----------------------------
(***************************************************************************)
(* Model of the ABS ECU daemon, src/ParkingAssist/ABS_ECU/abs_ecu.c:       *)
(* telemetry frame check (CRC-8), the braking decision, the sysfs PWM      *)
(* session (export, configure, enable, duty, disable, unexport), the       *)
(* receive loop and the shutdown path of main().                           *)
(***************************************************************************)
EXTENDS Integers, Sequences, FiniteSets, TLC

(***************************************************************************)
(* Program constants.                                                      *)
(***************************************************************************)
ULTRASONIC_CAN_ID == 256
BRAKE_CAN_ID == 512
CAN_SFF_MASK == 2047
ExportPolls == 50

(***************************************************************************)
(* Bounds of the model.                                                    *)
(***************************************************************************)
MaxFrames == 3
MaxTeardowns == 2

(***************************************************************************)
(* Inputs.  A configuration is what the argument loop of main() leaves in  *)
(* threshold_mm, min_distance_mm and period_ns; any int is accepted there. *)
(***************************************************************************)
Config(t, m, p) == [threshold_mm |-> t, min_distance_mm |-> m, period_ns |-> p]
\* Configurations of the runs: the defaults of lines 47-49, two with other
\* values (under the second, 400 mm is below the threshold and its percent
\* rounds to 0), and two that line 269 rejects.
Configs == {Config(300, 50, 1000000), Config(750, 50, 1050),
            Config(401, 50, 1050),
            Config(50, 50, 1000000), Config(50, 300, 1050)}
\* Configurations of the decision probe.
ProbeConfigs == {Config(300, 50, 1000000), Config(300, 260, 1050),
                 Config(750, 50, 1050), Config(65546, 50, 1050),
                 Config(300, -5, 1050)}

\* Distances carried by the frames of the loop, and by the decision probe.
LoopDists == {50, 175, 400}
ProbeDists == {0, 10, 40, 50, 51, 175, 260, 277, 299, 300, 400, 65535}
StatusBytes == {0, 1}
\* Duty register values an adopted channel may carry before the process starts.
AdoptedDuties == {0, 500}

(***************************************************************************)
(* uint8_t / uint16_t arithmetic.                                          *)
(***************************************************************************)
U8(x) == x % 256
U16(x) == x % 65536

RECURSIVE BitXor(_, _)
BitXor(x, y) ==
    IF x = 0 THEN y
    ELSE IF y = 0 THEN x
    ELSE (((x % 2) + (y % 2)) % 2) + 2 * BitXor(x \div 2, y \div 2)

\* A slip in line 64: the polynomial 0x31 for 0x07.
RECURSIVE crc8_shiftPoly31(_, _)
crc8_shiftPoly31(crc, b) ==
    IF b = 0 THEN crc
    ELSE IF crc >= 128 THEN crc8_shiftPoly31(BitXor(U8(crc * 2), 49), b - 1)
    ELSE crc8_shiftPoly31(U8(crc * 2), b - 1)

\* One pass of the inner loop of crc8 (lines 63-66), b bits still to shift.
RECURSIVE crc8_shift(_, _)
crc8_shift(crc, b) ==
    IF b = 0 THEN crc
    ELSE IF crc >= 128 THEN crc8_shift(BitXor(U8(crc * 2), 7), b - 1)
    ELSE crc8_shift(U8(crc * 2), b - 1)

\* The eight shifts of lines 63-66 for every value of crc after line 62.
crc8_byte == [c \in 0..255 |-> crc8_shift(c, 8)]

\* crc8(data, len): bytes data[1..len] (the C array data[0..len-1]).
RECURSIVE crc8_from(_, _, _, _)
crc8_from(data, len, i, crc) ==
    IF i > len THEN crc
    ELSE crc8_from(data, len, i + 1, crc8_byte[BitXor(crc, data[i])])

crc8(data, len) == crc8_from(data, len, 1, 0)

(***************************************************************************)
(* IEEE-754 binary64 arithmetic of lines 369-372, on exact integers.  A    *)
(* significand of up to 60 bits is three limbs <<l0, l1, l2>> of 20 bits,  *)
(* least significant first; a double is [m |-> limbs, s |-> exponent],     *)
(* value m * 2^s, rounded to 53 bits to nearest, ties to even.             *)
(***************************************************************************)
Base == 2 ^ 20

Carry(x) ==
    LET a1 == x[2] + (x[1] \div Base)
    IN  <<x[1] % Base, a1 % Base, x[3] + (a1 \div Base)>>

MulSmall(x, k) == Carry(<<x[1] * k, x[2] * k, x[3] * k>>)

AddPow2(x, n) ==
    Carry(<<x[1] + (IF n < 20 THEN 2 ^ n ELSE 0),
            x[2] + (IF n >= 20 /\ n < 40 THEN 2 ^ (n - 20) ELSE 0),
            x[3] + (IF n >= 40 THEN 2 ^ (n - 40) ELSE 0)>>)

RECURSIVE BitLenInt(_)
BitLenInt(n) == IF n = 0 THEN 0 ELSE 1 + BitLenInt(n \div 2)

BitLen(x) ==
    IF x[3] > 0 THEN 40 + BitLenInt(x[3])
    ELSE IF x[2] > 0 THEN 20 + BitLenInt(x[2])
    ELSE BitLenInt(x[1])

\* floor(x / 2^k), 0 <= k <= 20
ShiftRight(x, k) ==
    <<(x[1] \div (2 ^ k)) + (x[2] % (2 ^ k)) * (2 ^ (20 - k)),
      (x[2] \div (2 ^ k)) + (x[3] % (2 ^ k)) * (2 ^ (20 - k)),
      x[3] \div (2 ^ k)>>

\* x / 2^k rounded to nearest, ties to even, 1 <= k <= 20
RoundShift(x, k) ==
    LET low == x[1] % (2 ^ k)
        half == 2 ^ (k - 1)
        t == ShiftRight(x, k)
    IN  IF low > half \/ (low = half /\ t[1] % 2 = 1)
        THEN Carry(<<t[1] + 1, t[2], t[3]>>)
        ELSE t

Pow2_52 == <<0, 0, 2 ^ 12>>
Pow2_53 == <<0, 0, 2 ^ 13>>
Pow2_53m1 == <<Base - 1, Base - 1, 2 ^ 13 - 1>>

\* Keeps the significand below 2^53.
Normal(d) == IF d.m = Pow2_53 THEN [m |-> Pow2_52, s |-> d.s + 1] ELSE d

\* Long division, 13 quotient bits a step: <<digit, remainder>> of r / b,
\* for 0 <= r < b < 2^18.
DivStep(r, b) == <<(r * (2 ^ 13)) \div b, (r * (2 ^ 13)) % b>>

\* The least e >= 1 with a * 2^e >= b, for 0 < a < b.
LeadShift(a, b) ==
    LET d == BitLenInt(b) - BitLenInt(a)
    IN  IF d >= 1 /\ a * (2 ^ d) >= b THEN d ELSE d + 1

\* (double)a / (double)b for integers 0 < a < b < 2^18   (line 369)
DoubleDiv(a, b) ==
    LET e == LeadShift(a, b)
        s1 == DivStep(a * (2 ^ e) - b, b)
        s2 == DivStep(s1[2], b)
        s3 == DivStep(s2[2], b)
        s4 == DivStep(s3[2], b)
        r == s4[2]
        \* 2^52 + s1[1]*2^39 + s2[1]*2^26 + s3[1]*2^13 + s4[1], in limbs
        q == <<s4[1] + (s3[1] % (2 ^ 7)) * (2 ^ 13),
               (s3[1] \div (2 ^ 7)) + s2[1] * (2 ^ 6) + (s1[1] % 2) * (2 ^ 19),
               (s1[1] \div 2) + 2 ^ 12>>
        up == 2 * r > b \/ (2 * r = b /\ q[1] % 2 = 1)
    IN  Normal([m |-> IF up THEN Carry(<<q[1] + 1, q[2], q[3]>>) ELSE q,
                s |-> 0 - (e + 52)])

\* frac * 100.0   (line 372)
DoubleMul100(f) ==
    LET p == MulSmall(f.m, 100)
        k == BitLen(p) - 53
    IN  Normal([m |-> RoundShift(p, k), s |-> f.s + k])

\* (uint8_t)(y + 0.5) for a double 0 < y <= 100   (line 372)
AddHalfTruncate(y) ==
    LET E == y.s + 52
    IN  IF E <= -2 THEN (IF E = -2 /\ y.m = Pow2_53m1 THEN 1 ELSE 0)
        ELSE IF E = -1 THEN 1
        ELSE LET w == AddPow2(y.m, (0 - 1) - y.s)
                 z == IF BitLen(w) > 53
                      THEN [m |-> RoundShift(w, 1), s |-> y.s + 1]
                      ELSE [m |-> w, s |-> y.s]
             IN  U8(z.m[3] \div (2 ^ ((0 - z.s) - 40)))

(***************************************************************************)
(* The braking decision, lines 352-379, on the variables of main().        *)
(***************************************************************************)
\* A slip in line 369: the ratio taken from the near end.
InterpolatePercentInverted(threshold_mm, min_distance_mm, dist) ==
    LET num == dist - min_distance_mm
        den == threshold_mm - min_distance_mm
    IN  IF num <= 0 THEN 0
        ELSE IF num >= den THEN 100
        ELSE AddHalfTruncate(DoubleMul100(DoubleDiv(num, den)))

\* Lines 369-372: frac, its clamps, and the cast of frac * 100.0 + 0.5.
InterpolatePercent(threshold_mm, min_distance_mm, dist) ==
    LET num == threshold_mm - dist
        den == threshold_mm - min_distance_mm
    IN  IF num <= 0 THEN 0
        ELSE IF num >= den THEN 100
        ELSE AddHalfTruncate(DoubleMul100(DoubleDiv(num, den)))

\* Lines 361-378, status == 0.
BrakePercent(threshold_mm, min_distance_mm, dist) ==
    IF dist < U16(threshold_mm)
    THEN IF dist <= U16(min_distance_mm) THEN 100
         ELSE InterpolatePercent(threshold_mm, min_distance_mm, dist)
    ELSE 0

\* A slip in line 356: the status byte is not looked at.
DecideIgnoringStatus(dist, status, c) ==
    LET p == BrakePercent(c.threshold_mm, c.min_distance_mm, dist)
    IN  [brake_state |-> IF p > 0 THEN 1 ELSE 0, brake_percent |-> p]

\* A slip in line 374: brake_state is 1 for every distance below the
\* threshold.
DecideActiveBelowThreshold(dist, status, c) ==
    IF status # 0 THEN [brake_state |-> 0, brake_percent |-> 0]
    ELSE LET p == BrakePercent(c.threshold_mm, c.min_distance_mm, dist)
         IN  [brake_state |-> IF dist < U16(c.threshold_mm) THEN 1 ELSE 0,
              brake_percent |-> p]

\* Lines 352-379.
Decide(dist, status, c) ==
    IF status # 0 THEN [brake_state |-> 0, brake_percent |-> 0]
    ELSE LET p == BrakePercent(c.threshold_mm, c.min_distance_mm, dist)
         IN  [brake_state |-> IF p > 0 THEN 1 ELSE 0, brake_percent |-> p]

(***************************************************************************)
(* unsigned long / unsigned long long arithmetic of line 382.  A value of  *)
(* up to 80 bits is five limbs <<l0, .., l4>> of 16 bits, least            *)
(* significant first; an unsigned long long has l4 = 0.                    *)
(***************************************************************************)
Limb == 2 ^ 16

\* The limbs of an n in 0 .. 2^31 - 1, and back.
Wide(n) == <<n % Limb, n \div Limb, 0, 0, 0>>
Narrow(w) == w[1] + Limb * w[2]

\* x * k for 0 <= k < 2^15, exact.
WideMul(x, k) ==
    LET a1 == x[1] * k
        a2 == x[2] * k + (a1 \div Limb)
        a3 == x[3] * k + (a2 \div Limb)
        a4 == x[4] * k + (a3 \div Limb)
        a5 == x[5] * k + (a4 \div Limb)
    IN  <<a1 % Limb, a2 % Limb, a3 % Limb, a4 % Limb, a5 % Limb>>

\* floor(x / k) for 0 < k < 2^15.
WideDiv(x, k) ==
    LET t4 == (x[5] % k) * Limb + x[4]
        t3 == (t4 % k) * Limb + x[3]
        t2 == (t3 % k) * Limb + x[2]
        t1 == (t2 % k) * Limb + x[1]
    IN  <<t1 \div k, t2 \div k, t3 \div k, t4 \div k, x[5] \div k>>

\* x <= y
WideLeq(x, y) ==
    \A i \in 1..5 : (\A j \in (i + 1)..5 : x[j] = y[j]) => x[i] <= y[i]

\* The conversion to unsigned long long: the value modulo 2^64.
ULL(x) == <<x[1], x[2], x[3], x[4], 0>>

\* ULONG_MAX where unsigned long has 32 bits, and where it has 64.
ULONG_MAX_32 == <<Limb - 1, Limb - 1, 0, 0, 0>>
ULONG_MAX_64 == <<Limb - 1, Limb - 1, Limb - 1, Limb - 1, 0>>

\* Line 382 on limbs: the product is taken in unsigned long long, and the
\* quotient, which is at most period_ns, fits the unsigned long it is
\* converted to.
DutyNs64(period_ns, brake_percent) ==
    WideDiv(ULL(WideMul(period_ns, brake_percent)), 100)

\* Line 382, for a period_ns in 0 .. 2^31 - 1.
DutyNs(period_ns, brake_percent) ==
    Narrow(DutyNs64(Wide(period_ns), brake_percent))

(***************************************************************************)
(* Frames.  can_id is kept as its identifier bits and its CAN_EFF_FLAG.    *)
(***************************************************************************)
NoFrame == [eff |-> FALSE, can_id |-> 0, can_dlc |-> 0, data |-> <<>>]

Payload(dist, status, check) ==
    <<dist \div 256, dist % 256, 1, status, 0, 0, 0, check>>

GoodCheck(dist, status) == crc8(Payload(dist, status, 0), 7)

Telemetry(dist, status, check) ==
    [eff |-> FALSE, can_id |-> ULTRASONIC_CAN_ID, can_dlc |-> 8,
     data |-> Payload(dist, status, check)]

Frames ==
    {Telemetry(d, st, GoodCheck(d, st)) : d \in LoopDists, st \in StatusBytes}
    \cup {Telemetry(50, 0, U8(GoodCheck(50, 0) + 1)),
          Telemetry(400, 1, BitXor(GoodCheck(400, 1), 128))}
    \cup {[Telemetry(50, 0, GoodCheck(50, 0)) EXCEPT !.eff = TRUE],
          [Telemetry(50, 0, GoodCheck(50, 0)) EXCEPT !.can_id = 257],
          [eff |-> FALSE, can_id |-> ULTRASONIC_CAN_ID, can_dlc |-> 4,
           data |-> <<0, 50, 1, 0>>]}

\* A slip in line 325: the CAN_EFF_FLAG test is missing.
PassesFilterAnyFormat(f) ==
    /\ f.can_dlc = 8
    /\ f.can_id % (CAN_SFF_MASK + 1) = ULTRASONIC_CAN_ID

\* Lines 325-330.
PassesFilter(f) ==
    /\ ~f.eff
    /\ f.can_dlc = 8
    /\ f.can_id % (CAN_SFF_MASK + 1) = ULTRASONIC_CAN_ID

\* Line 335.
CrcOk(f) == crc8(f.data, 7) = f.data[8]

\* Lines 346-348.
FrameDist(f) == U16(f.data[1] * 256 + f.data[2])
FrameStatus(f) == f.data[4]

(***************************************************************************)
(* State.                                                                  *)
(***************************************************************************)
VARIABLES
    cfg,             \* threshold_mm, min_distance_mm, period_ns after the argument loop
    pc,              \* position in main()
    keep_running,    \* line 218
    exported_by_us,  \* line 54
    pwm_enabled,     \* line 55
    waited,          \* line 110
    can_sock,        \* TRUE while the CAN socket is open
    frame,           \* the frame read at line 314, NoFrame outside an iteration
    dist,            \* line 346
    status,          \* line 348
    brake_state,     \* line 353
    brake_percent,   \* line 354
    duty_ns,         \* line 382
    ret,             \* the value main() is about to return
    exit_code,       \* the value main() returned, -1 while it runs
    hw_exists,       \* the pwm<M> directory exists
    hw_enabled,      \* content of .../enable
    hw_duty,         \* content of .../duty_cycle
    sent,            \* the frames can_send_brake handed to write(), in order
    log,             \* what the run has done so far (history)
    prev_dec         \* the decision before the current one (decision probe)

config == <<cfg>>
session == <<exported_by_us, pwm_enabled>>
locals == <<frame, dist, status, brake_state, brake_percent, duty_ns>>
hw == <<hw_exists, hw_enabled, hw_duty>>
vars == <<cfg, pc, keep_running, exported_by_us, pwm_enabled, waited, can_sock,
          frame, dist, status, brake_state, brake_percent, duty_ns, ret,
          exit_code,
          hw_exists, hw_enabled, hw_duty, sent, log, prev_dec>>

NoDec == [dist |-> -1, status |-> -1, brake_state |-> -1, brake_percent |-> -1]

InitLog(existed) ==
    [existed_at_start |-> existed,  \* the pwm<M> directory existed at startup
     export_writes |-> 0,           \* write_sysfs calls on .../export
     unexport_writes |-> 0,         \* write_sysfs calls on .../unexport
     pwm_written |-> FALSE,         \* some period, duty_cycle or enable write was made
     last_write |-> "none",         \* the file of the last write_sysfs call: "export",
                                    \* "enable", "period", "duty_cycle", "unexport"
     enable |-> "pending",          \* how the pwm_set_enable(1) of line 294 went ("ok", "failed")
     duty_rc |-> 0,                 \* what the last pwm_set_duty_ns call returned
     duty_called |-> FALSE,         \* pwm_set_duty_ns was called since line 313 was last evaluated
     loop_entered |-> FALSE,        \* the while of line 313 was reached
     passed |-> 0,                  \* frames that passed the filter of lines 325-330
     received |-> <<>>,             \* for each of them, in order: whether line 335 accepted
                                    \* it, and the command lines 352-379 decided for it
     disable |-> "pending",         \* what the last pwm_cleanup_disable did: found
                                    \* pwm_enabled 0, or wrote 0 to enable ("ok", "failed")
     stop_in_frame |-> FALSE,       \* the handler ran between the filter of lines 325-330
                                    \* and the status frame of the frame that passed it
     teardowns |-> 0,               \* completed cleanup sequences
     closed |-> <<>>,               \* the session as the first cleanup sequence left it
                                    \* (teardown probe)
     exit_path |-> "running"]

\* The state at entry of main(), after the argument loop.
InitWith(c) ==
    /\ cfg = c
    /\ pc = "start"
    /\ keep_running = 1
    /\ exported_by_us = 0
    /\ pwm_enabled = 0
    /\ waited = 0
    /\ can_sock = FALSE
    /\ frame = NoFrame
    /\ dist = 0
    /\ status = 0
    /\ brake_state = 0
    /\ brake_percent = 0
    /\ duty_ns = 0
    /\ ret = 0
    /\ exit_code = -1
    /\ hw_exists \in BOOLEAN
    /\ hw_enabled \in (IF hw_exists THEN BOOLEAN ELSE {FALSE})
    /\ hw_duty \in (IF hw_exists THEN AdoptedDuties ELSE {0})
    /\ sent = <<>>
    /\ log = InitLog(hw_exists)
    /\ prev_dec = NoDec

Init == \E c \in Configs : InitWith(c)

\* A write_sysfs call can succeed only on a file that exists.
WriteOutcomes == IF hw_exists THEN BOOLEAN ELSE {FALSE}

\* return <code> from main()
Return(code, path) ==
    /\ pc' = "done"
    /\ exit_code' = code
    /\ log' = [log EXCEPT !.exit_path = path]

(***************************************************************************)
(* Setup, lines 269-308.                                                   *)
(***************************************************************************)
\* A slip in line 269: < for <=.
StartStrictOnly ==
    /\ pc = "start"
    /\ IF cfg.threshold_mm < cfg.min_distance_mm
       THEN Return(1, "bad_config")
       ELSE pc' = "ensure_exported" /\ UNCHANGED <<exit_code, log>>
    /\ UNCHANGED <<config, keep_running, session, waited, can_sock, locals,
                   ret, hw, sent, prev_dec>>

\* Lines 269-276: the configuration check, then the signal handlers.
Start ==
    /\ pc = "start"
    /\ IF cfg.threshold_mm <= cfg.min_distance_mm
       THEN Return(1, "bad_config")
       ELSE pc' = "ensure_exported" /\ UNCHANGED <<exit_code, log>>
    /\ UNCHANGED <<config, keep_running, session, waited, can_sock, locals,
                   ret, hw, sent, prev_dec>>

\* handle_sigint, lines 222-225, once the handlers are installed.
Signal ==
    /\ pc \notin {"start", "done", "probe"}
    /\ keep_running = 1
    /\ keep_running' = 0
    /\ log' = [log EXCEPT !.stop_in_frame =
                  pc \in {"crc_fail_duty", "crc_fail_send", "apply_duty",
                          "send_brake"}]
    /\ UNCHANGED <<config, pc, session, waited, can_sock, locals, ret,
                   exit_code, hw, sent, prev_dec>>

\* pwm_ensure_exported, lines 91-110, and its failure return at lines 279-282.
EnsureExported ==
    /\ pc = "ensure_exported"
    /\ IF hw_exists
       THEN /\ pc' = "setup_disable"
            /\ UNCHANGED <<exported_by_us, waited, exit_code, log>>
       ELSE \E ok \in BOOLEAN :
               IF ok
               THEN /\ exported_by_us' = 1
                    /\ waited' = 0
                    /\ pc' = "wait_export"
                    /\ log' = [log EXCEPT !.export_writes = @ + 1,
                                          !.last_write = "export"]
                    /\ UNCHANGED exit_code
               ELSE /\ pc' = "done"
                    /\ exit_code' = 1
                    /\ log' = [log EXCEPT !.export_writes = @ + 1,
                                          !.last_write = "export",
                                          !.exit_path = "export_failed"]
                    /\ UNCHANGED <<exported_by_us, waited>>
    /\ UNCHANGED <<config, keep_running, pwm_enabled, can_sock, locals, ret,
                   hw, sent, prev_dec>>

\* The kernel creates the pwm<M> directory of an exported channel.
SurfaceAppears ==
    /\ pc \in {"wait_export", "export_check"}
    /\ ~hw_exists
    /\ hw_exists' = TRUE
    /\ UNCHANGED <<config, pc, keep_running, session, waited, can_sock, locals,
                   ret, exit_code, hw_enabled, hw_duty, sent, log, prev_dec>>

\* A slip in line 113: waited is not incremented.
WaitExportNoCount ==
    /\ pc = "wait_export"
    /\ IF ~hw_exists /\ waited < ExportPolls
       THEN pc' = pc
       ELSE pc' = "export_check"
    /\ UNCHANGED <<config, keep_running, session, waited, can_sock, locals,
                   ret, exit_code, hw, sent, log, prev_dec>>

\* The polling loop, lines 111-114.
WaitExport ==
    /\ pc = "wait_export"
    /\ IF ~hw_exists /\ waited < ExportPolls
       THEN waited' = waited + 1 /\ pc' = pc
       ELSE pc' = "export_check" /\ UNCHANGED waited
    /\ UNCHANGED <<config, keep_running, session, can_sock, locals, ret,
                   exit_code, hw, sent, log, prev_dec>>

\* Lines 115-119, and the failure return at lines 279-282.  The local
\* waited goes out of scope on return.
ExportCheck ==
    /\ pc = "export_check"
    /\ IF ~hw_exists
       THEN Return(1, "export_timeout")
       ELSE pc' = "setup_disable" /\ UNCHANGED <<exit_code, log>>
    /\ waited' = 0
    /\ UNCHANGED <<config, keep_running, session, can_sock, locals, ret, hw,
                   sent, prev_dec>>

\* pwm_set_enable, lines 146-154: the write, and the flag on success.
PwmSetEnable(enable, ok) ==
    /\ hw_enabled' = IF ok THEN (enable = 1) ELSE hw_enabled
    /\ pwm_enabled' = IF ok THEN enable ELSE pwm_enabled

\* pwm_set_duty_ns, lines 137-143.
PwmSetDutyNs(duty, ok) ==
    /\ hw_duty' = IF ok THEN duty ELSE hw_duty
    /\ log' = [log EXCEPT !.pwm_written = TRUE,
                          !.last_write = "duty_cycle",
                          !.duty_rc = IF ok THEN 0 ELSE -1,
                          !.duty_called = TRUE]

\* Line 286.
SetupDisable ==
    /\ pc = "setup_disable"
    /\ \E ok \in WriteOutcomes : PwmSetEnable(0, ok)
    /\ pc' = "set_period"
    /\ log' = [log EXCEPT !.pwm_written = TRUE, !.last_write = "enable"]
    /\ UNCHANGED <<config, keep_running, exported_by_us, waited, can_sock,
                   locals, ret, exit_code, hw_exists, hw_duty, sent, prev_dec>>

\* Lines 287-290, pwm_set_period_ns: a failure is reported and nothing else,
\* and nothing reads the period register afterwards.
SetPeriod ==
    /\ pc = "set_period"
    /\ pc' = "set_duty_zero"
    /\ log' = [log EXCEPT !.pwm_written = TRUE, !.last_write = "period"]
    /\ UNCHANGED <<config, keep_running, session, waited, can_sock, locals,
                   ret, exit_code, hw, sent, prev_dec>>

\* Line 293.
SetDutyZero ==
    /\ pc = "set_duty_zero"
    /\ \E ok \in WriteOutcomes : PwmSetDutyNs(0, ok)
    /\ pc' = "enable"
    /\ UNCHANGED <<config, keep_running, session, waited, can_sock, locals,
                   ret, exit_code, hw_exists, hw_enabled, sent, prev_dec>>

\* A slip in lines 294-296: a failed enable ends the process.
EnableOrExit ==
    /\ pc = "enable"
    /\ \E ok \in WriteOutcomes :
          /\ PwmSetEnable(1, ok)
          /\ pc' = IF ok THEN "can_setup" ELSE "done"
          /\ exit_code' = IF ok THEN exit_code ELSE 1
          /\ log' = [log EXCEPT !.pwm_written = TRUE,
                                !.last_write = "enable",
                                !.enable = IF ok THEN "ok" ELSE "failed",
                                !.exit_path = IF ok THEN @ ELSE "enable_failed"]
    /\ UNCHANGED <<config, keep_running, exported_by_us, waited, can_sock,
                   locals, ret, hw_exists, hw_duty, sent, prev_dec>>

\* Lines 294-298.
Enable ==
    /\ pc = "enable"
    /\ \E ok \in WriteOutcomes :
          /\ PwmSetEnable(1, ok)
          /\ log' = [log EXCEPT !.pwm_written = TRUE,
                                !.last_write = "enable",
                                !.enable = IF ok THEN "ok" ELSE "failed"]
    /\ pc' = "can_setup"
    /\ UNCHANGED <<config, keep_running, exported_by_us, waited, can_sock,
                   locals, ret, exit_code, hw_exists, hw_duty, sent, prev_dec>>

\* Lines 301-308, can_setup_socket.
CanSetup ==
    /\ pc = "can_setup"
    /\ \E ok \in BOOLEAN :
          IF ok
          THEN /\ can_sock' = TRUE
               /\ pc' = "loop_top"
               /\ UNCHANGED <<ret, log>>
          ELSE /\ pc' = "cleanup_disable"
               /\ ret' = 1
               /\ log' = [log EXCEPT !.exit_path = "can_setup_failed"]
               /\ UNCHANGED can_sock
    /\ UNCHANGED <<config, keep_running, session, waited, locals, exit_code,
                   hw, sent, prev_dec>>

(***************************************************************************)
(* The loop, lines 313-396.                                                *)
(***************************************************************************)
\* Line 313: while (keep_running), and the fall to the cleanup at line 398.
LoopTop ==
    /\ pc = "loop_top"
    /\ IF keep_running = 1
       THEN /\ pc' = "read"
            /\ log' = [log EXCEPT !.loop_entered = TRUE, !.duty_called = FALSE]
            /\ UNCHANGED ret
       ELSE /\ pc' = "cleanup_disable"
            /\ ret' = 0
            /\ log' = [log EXCEPT !.exit_path = "shutdown",
                                  !.duty_called = FALSE]
    /\ UNCHANGED <<config, keep_running, session, waited, can_sock, locals,
                   exit_code, hw, sent, prev_dec>>

\* What the run remembers of a frame that passed the filter.
Received(f, c) ==
    IF CrcOk(f)
    THEN LET d == Decide(FrameDist(f), FrameStatus(f), c)
         IN  [valid |-> TRUE, command |-> <<d.brake_state, d.brake_percent>>]
    ELSE [valid |-> FALSE, command |-> <<>>]

\* Lines 314-382: a whole frame is read, filtered, checked and decided on.
\* Frames that pass the filter are counted, and bounded by MaxFrames.
RecvFrame ==
    /\ pc = "read"
    /\ \E f \in Frames :
          /\ PassesFilter(f) => log.passed < MaxFrames
          /\ frame' = f
          /\ log' = IF PassesFilter(f)
                    THEN [log EXCEPT !.passed = @ + 1,
                                     !.received = Append(@, Received(f, cfg))]
                    ELSE log
          /\ IF ~PassesFilter(f)
             THEN /\ pc' = "iter_end"
                  /\ UNCHANGED <<dist, status, brake_state, brake_percent,
                                 duty_ns>>
             ELSE IF ~CrcOk(f)
             THEN /\ pc' = "crc_fail_duty"
                  /\ UNCHANGED <<dist, status, brake_state, brake_percent,
                                 duty_ns>>
             ELSE LET d == Decide(FrameDist(f), FrameStatus(f), cfg)
                  IN  /\ dist' = FrameDist(f)
                      /\ status' = FrameStatus(f)
                      /\ brake_state' = d.brake_state
                      /\ brake_percent' = d.brake_percent
                      /\ duty_ns' = DutyNs(cfg.period_ns, d.brake_percent)
                      /\ pc' = "apply_duty"
    /\ UNCHANGED <<config, keep_running, session, waited, can_sock, ret,
                   exit_code, hw, sent, prev_dec>>

\* A slip in lines 317-318: return 1 for break.
ReadErrorReturns ==
    /\ pc = "read"
    /\ Return(1, "recv_error")
    /\ UNCHANGED <<config, keep_running, session, waited, can_sock, locals,
                   ret, hw, sent, prev_dec>>

\* Lines 315-318: read fails with an errno other than EINTR.
ReadError ==
    /\ pc = "read"
    /\ pc' = "cleanup_disable"
    /\ ret' = 0
    /\ log' = [log EXCEPT !.exit_path = "recv_error"]
    /\ UNCHANGED <<config, keep_running, session, waited, can_sock, locals,
                   exit_code, hw, sent, prev_dec>>

\* Line 316: read returns EINTR after the handler has run.  Whether a
\* blocked read is interrupted or restarted is up to how signal() installs
\* the handler (lines 275-276), so the step may happen but need not.
ReadInterrupted ==
    /\ pc = "read"
    /\ keep_running = 0
    /\ pc' = "loop_top"
    /\ UNCHANGED <<config, keep_running, session, waited, can_sock, locals,
                   ret, exit_code, hw, sent, log, prev_dec>>

\* Lines 319-322: a short read.
ShortRead ==
    /\ pc = "read"
    /\ pc' = "loop_top"
    /\ UNCHANGED <<config, keep_running, session, waited, can_sock, locals,
                   ret, exit_code, hw, sent, log, prev_dec>>

\* A slip in lines 211-212: the two payload bytes the other way round.
BrakeFrameSwapped(state, percent) ==
    [can_id |-> BRAKE_CAN_ID, can_dlc |-> 2,
     data |-> <<percent, IF state # 0 THEN 1 ELSE 0>>]

\* The frame of lines 207-212.
BrakeFrame(state, percent) ==
    [can_id |-> BRAKE_CAN_ID, can_dlc |-> 2,
     data |-> <<IF state # 0 THEN 1 ELSE 0, percent>>]

\* can_send_brake, lines 206-215.  What write() returns only decides a
\* diagnostic (lines 388-390), so the frame is recorded as handed to write().
CanSendBrake(state, percent) == sent' = Append(sent, BrakeFrame(state, percent))

\* Lines 338-340.
CrcFailDuty ==
    /\ pc = "crc_fail_duty"
    /\ IF pwm_enabled # 0
       THEN \E ok \in WriteOutcomes : PwmSetDutyNs(0, ok)
       ELSE UNCHANGED <<hw_duty, log>>
    /\ pc' = "crc_fail_send"
    /\ UNCHANGED <<config, keep_running, session, waited, can_sock, locals,
                   ret, exit_code, hw_exists, hw_enabled, sent, prev_dec>>

\* A slip in line 341: the command decoded from the rejected frame is sent.
CrcFailSendDecoded ==
    /\ pc = "crc_fail_send"
    /\ LET d == Decide(FrameDist(frame), FrameStatus(frame), cfg)
       IN  CanSendBrake(d.brake_state, d.brake_percent)
    /\ pc' = "iter_end"
    /\ UNCHANGED <<config, keep_running, session, waited, can_sock, locals,
                   ret, exit_code, hw, log, prev_dec>>

\* Lines 341-342.
CrcFailSend ==
    /\ pc = "crc_fail_send"
    /\ CanSendBrake(0, 0)
    /\ pc' = "iter_end"
    /\ UNCHANGED <<config, keep_running, session, waited, can_sock, locals,
                   ret, exit_code, hw, log, prev_dec>>

\* A slip in line 383: the loop is left there once keep_running is 0.
ApplyDutyUnlessStopped ==
    /\ pc = "apply_duty"
    /\ IF keep_running = 0
       THEN /\ pc' = "cleanup_disable"
            /\ ret' = 0
            /\ log' = [log EXCEPT !.exit_path = "shutdown"]
            /\ UNCHANGED hw_duty
       ELSE /\ \E ok \in WriteOutcomes : PwmSetDutyNs(duty_ns, ok)
            /\ pc' = "send_brake"
            /\ UNCHANGED ret
    /\ UNCHANGED <<config, keep_running, session, waited, can_sock, locals,
                   exit_code, hw_exists, hw_enabled, sent, prev_dec>>

\* Lines 383-385.
ApplyDuty ==
    /\ pc = "apply_duty"
    /\ \E ok \in WriteOutcomes : PwmSetDutyNs(duty_ns, ok)
    /\ pc' = "send_brake"
    /\ UNCHANGED <<config, keep_running, session, waited, can_sock, locals,
                   ret, exit_code, hw_exists, hw_enabled, sent, prev_dec>>

\* A slip in line 388: the status frame reports the duty in effect.
SendBrakeAchieved ==
    /\ pc = "send_brake"
    /\ CanSendBrake(IF hw_duty > 0 THEN 1 ELSE 0,
                    (hw_duty * 100) \div cfg.period_ns)
    /\ pc' = "iter_end"
    /\ UNCHANGED <<config, keep_running, session, waited, can_sock, locals,
                   ret, exit_code, hw, log, prev_dec>>

\* A slip in line 388: a status frame is sent only when the command changes.
SendBrakeOnChange ==
    /\ pc = "send_brake"
    /\ IF sent # <<>> /\ sent[Len(sent)] = BrakeFrame(brake_state, brake_percent)
       THEN UNCHANGED sent
       ELSE CanSendBrake(brake_state, brake_percent)
    /\ pc' = "iter_end"
    /\ UNCHANGED <<config, keep_running, session, waited, can_sock, locals,
                   ret, exit_code, hw, log, prev_dec>>

\* Lines 387-395.
SendBrake ==
    /\ pc = "send_brake"
    /\ CanSendBrake(brake_state, brake_percent)
    /\ pc' = "iter_end"
    /\ UNCHANGED <<config, keep_running, session, waited, can_sock, locals,
                   ret, exit_code, hw, log, prev_dec>>

\* The end of an iteration (a continue, or the closing brace of line 396):
\* data, dist, status, brake_state, brake_percent and duty_ns go out of
\* scope, and nothing
\* reads frame again before the next read overwrites it.
Continue ==
    /\ pc = "iter_end"
    /\ pc' = "loop_top"
    /\ frame' = NoFrame
    /\ dist' = 0
    /\ status' = 0
    /\ brake_state' = 0
    /\ brake_percent' = 0
    /\ duty_ns' = 0
    /\ UNCHANGED <<config, keep_running, session, waited, can_sock, ret,
                   exit_code, hw, sent, log, prev_dec>>

(***************************************************************************)
(* Cleanup, lines 304-306 and 398-403.                                     *)
(***************************************************************************)
\* A slip in lines 400-401 (and 304-305): the two calls the other way
\* round, pwm_cleanup_unexport first and pwm_cleanup_disable after it.
CleanupDisableSwapped ==
    /\ pc = "cleanup_disable"
    /\ \E gone \in BOOLEAN :
          LET unexport == exported_by_us # 0
              exists == IF unexport /\ gone THEN FALSE ELSE hw_exists
          IN  /\ hw_exists' = exists
              /\ IF pwm_enabled # 0
                 THEN \E ok \in (IF exists THEN BOOLEAN ELSE {FALSE}) :
                         /\ PwmSetEnable(0, ok)
                         /\ log' = [log EXCEPT
                                       !.unexport_writes = IF unexport THEN @ + 1 ELSE @,
                                       !.pwm_written = TRUE,
                                       !.last_write = "enable",
                                       !.disable = IF ok THEN "ok" ELSE "failed",
                                       !.teardowns = @ + 1]
                 ELSE /\ UNCHANGED <<hw_enabled, pwm_enabled>>
                      /\ log' = [log EXCEPT
                                    !.unexport_writes = IF unexport THEN @ + 1 ELSE @,
                                    !.last_write = IF unexport THEN "unexport" ELSE @,
                                    !.disable = "not_enabled",
                                    !.teardowns = @ + 1]
    /\ pc' = "return"
    /\ UNCHANGED <<config, keep_running, exported_by_us, waited, can_sock,
                   locals, ret, exit_code, hw_duty, sent, prev_dec>>

\* pwm_cleanup_disable, lines 167-171.
CleanupDisable ==
    /\ pc = "cleanup_disable"
    /\ IF pwm_enabled # 0
       THEN \E ok \in WriteOutcomes :
               /\ PwmSetEnable(0, ok)
               /\ log' = [log EXCEPT !.pwm_written = TRUE,
                                     !.last_write = "enable",
                                     !.disable = IF ok THEN "ok" ELSE "failed"]
       ELSE /\ UNCHANGED <<hw_enabled, pwm_enabled>>
            /\ log' = [log EXCEPT !.disable = "not_enabled"]
    /\ pc' = "cleanup_unexport"
    /\ UNCHANGED <<config, keep_running, exported_by_us, waited, can_sock,
                   locals, ret, exit_code, hw_exists, hw_duty, sent, prev_dec>>

\* A slip in line 158: the ownership test is missing.
CleanupUnexportUnguarded ==
    /\ pc = "cleanup_unexport"
    /\ \E ok \in BOOLEAN : hw_exists' = IF ok THEN FALSE ELSE hw_exists
    /\ log' = [log EXCEPT !.unexport_writes = @ + 1,
                          !.last_write = "unexport", !.teardowns = @ + 1]
    /\ pc' = "return"
    /\ UNCHANGED <<config, keep_running, session, waited, can_sock, locals,
                   ret, exit_code, hw_enabled, hw_duty, sent, prev_dec>>

\* pwm_cleanup_unexport, lines 157-164.
CleanupUnexport ==
    /\ pc = "cleanup_unexport"
    /\ IF exported_by_us # 0
       THEN /\ \E ok \in BOOLEAN : hw_exists' = IF ok THEN FALSE ELSE hw_exists
            /\ log' = [log EXCEPT !.unexport_writes = @ + 1,
                                  !.last_write = "unexport",
                                  !.teardowns = @ + 1]
       ELSE /\ UNCHANGED hw_exists
            /\ log' = [log EXCEPT !.teardowns = @ + 1]
    /\ pc' = "return"
    /\ UNCHANGED <<config, keep_running, session, waited, can_sock, locals,
                   ret, exit_code, hw_enabled, hw_duty, sent, prev_dec>>

\* Line 306 (return 1), or lines 402-403 (close, return 0).
Exit ==
    /\ pc = "return"
    /\ can_sock' = FALSE
    /\ pc' = "done"
    /\ exit_code' = ret
    /\ UNCHANGED <<config, keep_running, session, waited, locals, ret, hw,
                   sent, log, prev_dec>>

Next ==
    \/ Start
    \/ Signal
    \/ EnsureExported
    \/ SurfaceAppears
    \/ WaitExport
    \/ ExportCheck
    \/ SetupDisable
    \/ SetPeriod
    \/ SetDutyZero
    \/ Enable
    \/ CanSetup
    \/ LoopTop
    \/ RecvFrame
    \/ ReadError
    \/ ReadInterrupted
    \/ ShortRead
    \/ CrcFailDuty
    \/ CrcFailSend
    \/ ApplyDuty
    \/ SendBrake
    \/ Continue
    \/ CleanupDisable
    \/ CleanupUnexport
    \/ Exit

Spec == Init /\ [][Next]_vars

\* The steps the process takes by itself once it is scheduled.  A frame
\* arriving, a read failing or being interrupted, a signal and the kernel
\* creating the pwm<M> directory are up to the environment.
ProgramStep ==
    \/ Start
    \/ EnsureExported
    \/ WaitExport
    \/ ExportCheck
    \/ SetupDisable
    \/ SetPeriod
    \/ SetDutyZero
    \/ Enable
    \/ CanSetup
    \/ LoopTop
    \/ CrcFailDuty
    \/ CrcFailSend
    \/ ApplyDuty
    \/ SendBrake
    \/ Continue
    \/ CleanupDisable
    \/ CleanupUnexport
    \/ Exit

\* The runs in which the process keeps being scheduled.
SpecFair == Spec /\ WF_vars(ProgramStep)

(***************************************************************************)
(* The decision probe: lines 346-388 applied to one valid frame after      *)
(* another, for the claims about the decision as a function of its inputs. *)
(* sent keeps the status frame of the last decision only.                  *)
(***************************************************************************)
InitProbe ==
    /\ cfg \in {c \in ProbeConfigs : c.threshold_mm > c.min_distance_mm}
    /\ pc = "probe"
    /\ keep_running = 1
    /\ exported_by_us = 0
    /\ pwm_enabled = 0
    /\ waited = 0
    /\ can_sock = FALSE
    /\ frame = NoFrame
    /\ dist = 0
    /\ status = 0
    /\ brake_state = 0
    /\ brake_percent = 0
    /\ duty_ns = 0
    /\ ret = 0
    /\ exit_code = -1
    /\ hw_exists = TRUE
    /\ hw_enabled = FALSE
    /\ hw_duty = 0
    /\ sent = <<>>
    /\ log = InitLog(TRUE)
    /\ prev_dec = NoDec

ProbeFrames ==
    {Telemetry(d, st, GoodCheck(d, st)) : d \in ProbeDists, st \in StatusBytes}

DecideProbe ==
    /\ pc = "probe"
    /\ \E f \in ProbeFrames :
          LET d == Decide(FrameDist(f), FrameStatus(f), cfg)
          IN  /\ CrcOk(f)
              /\ frame' = f
              /\ dist' = FrameDist(f)
              /\ status' = FrameStatus(f)
              /\ brake_state' = d.brake_state
              /\ brake_percent' = d.brake_percent
              /\ duty_ns' = DutyNs(cfg.period_ns, d.brake_percent)
              /\ sent' = <<BrakeFrame(d.brake_state, d.brake_percent)>>
    /\ prev_dec' = IF frame = NoFrame THEN NoDec
                   ELSE [dist |-> FrameDist(frame), status |-> FrameStatus(frame),
                         brake_state |-> brake_state,
                         brake_percent |-> brake_percent]
    /\ UNCHANGED <<config, pc, keep_running, session, waited, can_sock, ret,
                   exit_code, hw, log>>

SpecProbe == InitProbe /\ [][DecideProbe]_vars

(***************************************************************************)
(* The decoding probe: lines 332-348 applied to one filter-passing frame   *)
(* after another, for the claims about the check and the parse as          *)
(* functions of the payload.                                               *)
(***************************************************************************)
DecodeFrames ==
    {Telemetry(0, 0, 0)} \cup
    {[eff |-> FALSE, can_id |-> ULTRASONIC_CAN_ID, can_dlc |-> 8,
      data |-> <<b0, b1, b2, b3>> \o tl \o <<U8(BitXor(crc8(<<b0, b1, b2, b3>> \o tl, 7), x))>>] :
        b0 \in {0, 1, 255}, b1 \in {0, 50, 255}, b2 \in {1, 7},
        b3 \in {0, 1, 2}, tl \in {<<0, 0, 0>>, <<165, 90, 255>>},
        x \in {0, 1, 128, 255}}

InitDecode ==
    /\ cfg = Config(300, 50, 1000000)
    /\ pc = "decode"
    /\ keep_running = 1
    /\ exported_by_us = 0
    /\ pwm_enabled = 0
    /\ waited = 0
    /\ can_sock = TRUE
    /\ frame = NoFrame
    /\ dist = 0
    /\ status = 0
    /\ brake_state = 0
    /\ brake_percent = 0
    /\ duty_ns = 0
    /\ ret = 0
    /\ exit_code = -1
    /\ hw_exists = TRUE
    /\ hw_enabled = FALSE
    /\ hw_duty = 0
    /\ sent = <<>>
    /\ log = InitLog(TRUE)
    /\ prev_dec = NoDec

\* Lines 332-348: "crc_fail" is the branch of line 335, "parsed" is line 348.
DecodeProbe ==
    /\ pc \in {"decode", "crc_fail", "parsed"}
    /\ \E f \in DecodeFrames :
          /\ PassesFilter(f)
          /\ frame' = f
          /\ IF ~CrcOk(f)
             THEN pc' = "crc_fail" /\ dist' = 0 /\ status' = 0
             ELSE /\ pc' = "parsed"
                  /\ dist' = FrameDist(f)
                  /\ status' = FrameStatus(f)
    /\ UNCHANGED <<config, keep_running, session, waited, can_sock,
                   brake_state, brake_percent, duty_ns, ret, exit_code, hw,
                   sent, log, prev_dec>>

SpecDecode == InitDecode /\ [][DecodeProbe]_vars

(***************************************************************************)
(* The duty probe: lines 346-385 applied to one valid frame after another  *)
(* under the periods strtoul (line 252) can leave in period_ns, for the    *)
(* claims about the duty as a function of the period and the percent.      *)
(* Here period_ns, duty_ns and the duty_cycle register are kept as limbs.  *)
(***************************************************************************)
\* 0, 1050, 1000000, ULONG_MAX of a 32-bit unsigned long, the largest period
\* whose hundredfold is below 2^64 (184467440737095516), the next one, and
\* ULONG_MAX of a 64-bit unsigned long (what strtoul returns for "-1" and
\* for a number out of range).
DutyPeriods ==
    {Wide(0), Wide(1050), Wide(1000000), ULONG_MAX_32,
     WideDiv(ULONG_MAX_64, 100), <<36701, 62914, 23592, 655, 0>>,
     ULONG_MAX_64}

InitDuty ==
    /\ cfg \in {[Config(300, 50, 0) EXCEPT !.period_ns = p] : p \in DutyPeriods}
    /\ pc = "duty"
    /\ keep_running = 1
    /\ exported_by_us = 0
    /\ pwm_enabled = 1
    /\ waited = 0
    /\ can_sock = TRUE
    /\ frame = NoFrame
    /\ dist = 0
    /\ status = 0
    /\ brake_state = 0
    /\ brake_percent = 0
    /\ duty_ns = Wide(0)
    /\ ret = 0
    /\ exit_code = -1
    /\ hw_exists = TRUE
    /\ hw_enabled = TRUE
    /\ hw_duty = Wide(0)
    /\ sent = <<>>
    /\ log = [InitLog(TRUE) EXCEPT !.enable = "ok", !.loop_entered = TRUE]
    /\ prev_dec = NoDec

\* Lines 346-385: parse, decide, duty_ns, pwm_set_duty_ns.
DutyProbe ==
    /\ pc = "duty"
    /\ \E f \in ProbeFrames :
          LET d == Decide(FrameDist(f), FrameStatus(f), cfg)
              duty == DutyNs64(cfg.period_ns, d.brake_percent)
          IN  /\ CrcOk(f)
              /\ frame' = f
              /\ dist' = FrameDist(f)
              /\ status' = FrameStatus(f)
              /\ brake_state' = d.brake_state
              /\ brake_percent' = d.brake_percent
              /\ duty_ns' = duty
              /\ \E ok \in WriteOutcomes : PwmSetDutyNs(duty, ok)
    /\ UNCHANGED <<config, pc, keep_running, session, waited, can_sock, ret,
                   exit_code, hw_exists, hw_enabled, sent, prev_dec>>

SpecDuty == InitDuty /\ [][DutyProbe]_vars

(***************************************************************************)
(* The teardown probe: the cleanup sequence of lines 400-401 (and 304-305), *)
(* pwm_cleanup_disable then pwm_cleanup_unexport, run on a session that    *)
(* was set up, and then run again on what it left.                         *)
(***************************************************************************)
\* The session as the cleanup sees it: the two flags and the sysfs files.
Session ==
    [exported_by_us |-> exported_by_us, pwm_enabled |-> pwm_enabled,
     hw_exists |-> hw_exists, hw_enabled |-> hw_enabled, hw_duty |-> hw_duty]

\* The states in which main() reaches line 304 or line 400: the channel
\* exists, exported by this process or adopted; pwm_enabled is 1 only after
\* a successful write of 1 to enable; an adopted channel may have been left
\* enabled when both writes to enable failed.
InitTeardown ==
    /\ cfg = Config(300, 50, 1000000)
    /\ pc = "cleanup_disable"
    /\ keep_running \in {0, 1}
    /\ exported_by_us \in {0, 1}
    /\ pwm_enabled \in {0, 1}
    /\ waited = 0
    /\ can_sock \in BOOLEAN
    /\ frame = NoFrame
    /\ dist = 0
    /\ status = 0
    /\ brake_state = 0
    /\ brake_percent = 0
    /\ duty_ns = 0
    /\ ret = 0
    /\ exit_code = -1
    /\ hw_exists = TRUE
    /\ hw_enabled \in (IF pwm_enabled = 1 THEN {TRUE}
                       ELSE IF exported_by_us = 1 THEN {FALSE} ELSE BOOLEAN)
    /\ hw_duty \in {0, 500, 1000000}
    /\ sent = <<>>
    /\ log = [InitLog(exported_by_us = 0) EXCEPT
                 !.export_writes = exported_by_us, !.pwm_written = TRUE,
                 !.last_write = "enable",
                 !.enable = IF pwm_enabled = 1 THEN "ok" ELSE "failed"]
    /\ prev_dec = NoDec

\* The cleanup sequence is entered again after it has completed.
TeardownAgain ==
    /\ pc = "return"
    /\ log.teardowns < MaxTeardowns
    /\ pc' = "cleanup_disable"
    /\ log' = [log EXCEPT !.closed = IF log.teardowns = 1 THEN Session ELSE @]
    /\ UNCHANGED <<config, keep_running, session, waited, can_sock, locals,
                   ret, exit_code, hw, sent, prev_dec>>

NextTeardown ==
    \/ CleanupDisable
    \/ CleanupUnexport
    \/ TeardownAgain

SpecTeardown == InitTeardown /\ [][NextTeardown]_vars

(***************************************************************************)
(* Properties.                                                             *)
(***************************************************************************)
\* The frame of the current iteration passed the filter and failed the CRC.
CorruptedFrame == frame # NoFrame /\ PassesFilter(frame) /\ ~CrcOk(frame)
\* The frame of the current iteration passed the filter and the CRC.
ValidFrame == frame # NoFrame /\ PassesFilter(frame) /\ CrcOk(frame)
LastSent == sent[Len(sent)]

\* C1: when the iteration of a frame that passed the filter and failed the
\* CRC ends, one status frame has been sent for each frame that passed the
\* filter and the last one is [0,0] on the brake identifier, whatever the
\* distance and status bytes of the frame.
C1_CorruptedFrameStatus ==
    (pc = "iter_end" /\ CorruptedFrame) =>
        /\ Len(sent) = log.passed
        /\ LastSent.can_id = BRAKE_CAN_ID
        /\ LastSent.data = <<0, 0>>

\* C1 witness: a corrupted frame whose bytes decode to 50 mm with status 0
\* (full braking, were it valid) is answered by [0,0] after a [1,100].
C1_Witness ==
    /\ pc = "iter_end"
    /\ CorruptedFrame
    /\ FrameDist(frame) = 50
    /\ FrameStatus(frame) = 0
    /\ Len(sent) >= 2
    /\ sent[Len(sent) - 1].data = <<1, 100>>
    /\ LastSent.data = <<0, 0>>

\* C2: when the iteration of a corrupted frame ends, the duty register is 0,
\* in every run.  Stated here for the runs in which the last duty write the
\* process made did not fail, so that a violation is the doing of the code.
C2_CorruptedFrameZeroDuty ==
    (pc = "iter_end" /\ CorruptedFrame /\ log.duty_rc = 0) => hw_duty = 0

\* C2 failing run: the enable of line 294 failed, a valid frame had its
\* non-zero duty written, and the corrupted frame after it left that duty.
C2_FailingRun ==
    /\ pc = "iter_end"
    /\ CorruptedFrame
    /\ pwm_enabled = 0
    /\ log.duty_rc = 0
    /\ hw_duty > 0

\* C3: when main() has returned after the export was written or the channel
\* was opened, the cleanup sequence has run exactly once, and the channel was
\* unexported if this process exported it.
C3_TeardownOnEveryExit ==
    (pc = "done" /\ (exported_by_us = 1 \/ log.pwm_written)) =>
        /\ log.teardowns = 1
        /\ exported_by_us = 1 => log.unexport_writes = 1

\* C3 failing run: the export was written, the directory did not appear
\* within the polls, and main() returned with no cleanup and no unexport.
C3_FailingRun ==
    /\ pc = "done"
    /\ log.exit_path = "export_timeout"
    /\ exported_by_us = 1
    /\ log.export_writes = 1
    /\ log.teardowns = 0
    /\ log.unexport_writes = 0

\* C4: main() returns 0 after a shutdown by signal, and non-zero after a
\* setup failure and after a receive error in the loop.
C4_ExitCodes ==
    pc = "done" =>
        /\ log.exit_path = "shutdown" => exit_code = 0
        /\ log.exit_path \in {"bad_config", "export_failed", "export_timeout",
                              "can_setup_failed", "recv_error"}
              => exit_code # 0

\* C4 failing run: the loop was left on a receive error and main() returned 0.
C4_FailingRun ==
    /\ pc = "done"
    /\ log.exit_path = "recv_error"
    /\ log.teardowns = 1
    /\ exit_code = 0

\* C5: if the pwm<M> directory exists at startup, no export and no unexport
\* is ever written; an unexport is written only after this process wrote the
\* export, and at most once.
C5_UnexportOnlyOwnExport ==
    /\ log.existed_at_start =>
          log.export_writes = 0 /\ log.unexport_writes = 0
    /\ log.unexport_writes > 0 =>
          exported_by_us = 1 /\ log.export_writes = 1 /\ log.unexport_writes = 1

\* C5 witness: a run on an adopted channel went through the loop and the
\* cleanup and returned.
C5_Witness ==
    /\ pc = "done"
    /\ log.existed_at_start
    /\ log.loop_entered
    /\ log.teardowns = 1
    /\ log.unexport_writes = 0

\* C6: with threshold_mm <= min_distance_mm, main() only returns non-zero:
\* no export, no period, duty or enable write, no CAN socket, no loop.
C6_BadConfigTouchesNothing ==
    cfg.threshold_mm <= cfg.min_distance_mm =>
        /\ pc \in {"start", "done"}
        /\ pc = "done" => exit_code # 0 /\ log.exit_path = "bad_config"
        /\ log.export_writes = 0
        /\ log.unexport_writes = 0
        /\ ~log.pwm_written
        /\ ~can_sock
        /\ ~log.loop_entered
        /\ exported_by_us = 0
        /\ pwm_enabled = 0
        /\ hw_exists = log.existed_at_start

\* C6 witness: the run with threshold_mm = min_distance_mm has returned 1.
C6_Witness ==
    /\ cfg.threshold_mm = cfg.min_distance_mm
    /\ pc = "done"
    /\ exit_code = 1

\* C7: for a valid frame whose status byte is not 0, the command is {0,0} and
\* the duty asked for is 0, whatever the distance; once the write has
\* succeeded the duty register is 0, and the status frame sent is [0,0].
C7_InhibitedStatusNoBraking ==
    (pc \in {"apply_duty", "send_brake", "iter_end"} /\ ValidFrame
        /\ FrameStatus(frame) # 0) =>
        /\ brake_state = 0
        /\ brake_percent = 0
        /\ duty_ns = 0
        /\ (pc # "apply_duty" /\ log.duty_rc = 0) => hw_duty = 0
        /\ pc = "iter_end" => LastSent.data = <<0, 0>>

\* C7 witness: a valid frame at min_distance_mm with a non-zero status, after
\* a frame that set a non-zero duty, has had its duty 0 written.
C7_Witness ==
    /\ pc = "iter_end"
    /\ ValidFrame
    /\ FrameStatus(frame) # 0
    /\ FrameDist(frame) <= cfg.min_distance_mm
    /\ Len(sent) >= 2
    /\ sent[Len(sent) - 1].data = <<1, 100>>
    /\ log.duty_rc = 0
    /\ hw_duty = 0

\* The decision probe has decided on a frame with status 0.
ProbedOk == pc = "probe" /\ frame # NoFrame /\ FrameStatus(frame) = 0

\* C8: for a valid frame with status 0, distance_mm >= threshold_mm gives
\* {0,0} and distance_mm <= min_distance_mm gives {1,100}.
C8_Boundaries ==
    ProbedOk =>
        /\ FrameDist(frame) >= cfg.threshold_mm =>
              brake_state = 0 /\ brake_percent = 0
        /\ FrameDist(frame) <= cfg.min_distance_mm =>
              brake_state = 1 /\ brake_percent = 100

\* C8 failing run: threshold_mm = 65546 and min_distance_mm = 50, a valid
\* frame at 40 mm with status 0, and the command is {0,0}.
C8_FailingRun ==
    /\ ProbedOk
    /\ cfg.threshold_mm = 65546
    /\ cfg.min_distance_mm = 50
    /\ FrameDist(frame) = 40
    /\ brake_state = 0
    /\ brake_percent = 0

\* 100 * (t - d) / (t - m) rounded half-up.
HalfUpPercent(t, m, d) == (200 * (t - d) + (t - m)) \div (2 * (t - m))

\* C9: for a valid frame with status 0 and min_distance_mm < distance_mm <
\* threshold_mm, percent is 100 * (threshold_mm - distance_mm) /
\* (threshold_mm - min_distance_mm) rounded half-up, and active is 1 exactly
\* when percent > 0.  Stated here for the configurations within
\* 0 <= min_distance_mm < threshold_mm <= 65535, which the casts of lines
\* 361 and 366 leave as they are.
C9_InterpolationHalfUp ==
    (ProbedOk /\ 0 <= cfg.min_distance_mm /\ cfg.threshold_mm <= 65535
        /\ cfg.min_distance_mm < FrameDist(frame)
        /\ FrameDist(frame) < cfg.threshold_mm) =>
        /\ brake_percent = HalfUpPercent(cfg.threshold_mm, cfg.min_distance_mm,
                                         FrameDist(frame))
        /\ brake_state = (IF brake_percent > 0 THEN 1 ELSE 0)

\* C9 failing run: threshold_mm = 300, min_distance_mm = 260, a valid frame
\* at 277 mm with status 0: 100 * 23 / 40 = 57.5, and the percent is 57.
C9_FailingRun ==
    /\ ProbedOk
    /\ cfg.threshold_mm = 300
    /\ cfg.min_distance_mm = 260
    /\ FrameDist(frame) = 277
    /\ HalfUpPercent(300, 260, 277) = 58
    /\ brake_state = 1
    /\ brake_percent = 57

\* C10: for status 0 and a fixed configuration, percent does not increase
\* with distance_mm: of two decisions, the one on the larger distance has
\* the smaller or equal percent.
C10_PercentNonIncreasing ==
    (ProbedOk /\ prev_dec # NoDec /\ prev_dec.status = 0) =>
        /\ prev_dec.dist <= FrameDist(frame) =>
              prev_dec.brake_percent >= brake_percent
        /\ prev_dec.dist >= FrameDist(frame) =>
              prev_dec.brake_percent <= brake_percent

\* C10 witness: two decisions strictly between the bounds, the farther one
\* with the strictly smaller, non-zero percent.
C10_Witness ==
    /\ ProbedOk
    /\ prev_dec # NoDec
    /\ prev_dec.status = 0
    /\ cfg.min_distance_mm < prev_dec.dist
    /\ prev_dec.dist < FrameDist(frame)
    /\ FrameDist(frame) < cfg.threshold_mm
    /\ prev_dec.brake_percent > brake_percent
    /\ brake_percent > 0

\* The CRC-8 of the reference: the remainder of the message polynomial times
\* x^8 divided by x^8 + x^2 + x + 1 over GF(2), bits most significant first,
\* initial value 0.  ModX is the remainder of r * x: the generator (0x107)
\* is taken off when x^8 appears.  The remainder of a message is that of
\* its first bytes times x^8, plus (xor) its last byte.
ModX(r) == IF 2 * r >= 256 THEN BitXor(2 * r - 256, 7) ELSE 2 * r
ModX8 == [r \in 0..255 |-> ModX(ModX(ModX(ModX(ModX(ModX(ModX(ModX(r))))))))]
Remainder(r, byte) == BitXor(ModX8[r], byte)
\* For the seven bytes d[1..7], then times x^8.
RefCrc8(d) ==
    ModX8[Remainder(Remainder(Remainder(Remainder(Remainder(Remainder(
        Remainder(0, d[1]), d[2]), d[3]), d[4]), d[5]), d[6]), d[7])]

\* C11: a filter-passing frame takes the integrity-error branch if and only
\* if its byte 7 differs from the CRC-8 (polynomial 0x07, most significant
\* bit first, initial value 0) of its bytes 0..6; otherwise dist is bytes
\* 0..1 big-endian and status is byte 3.  The check value of the catalogued
\* CRC-8 ("123456789" gives 0xF4) is that of crc8.
C11_IntegrityCheckAndParse ==
    /\ crc8(<<49, 50, 51, 52, 53, 54, 55, 56, 57>>, 9) = 244
    /\ pc \in {"crc_fail", "parsed"} =>
          /\ pc = "crc_fail" <=> frame.data[8] # RefCrc8(frame.data)
          /\ pc = "parsed" =>
                /\ dist = frame.data[1] * 256 + frame.data[2]
                /\ status = frame.data[4]

\* C11 witness: a frame with bytes 0..1 = 01 32 and byte 3 = 2 was parsed
\* as 306 mm, status 2.
C11_Witness ==
    /\ pc = "parsed"
    /\ frame.data[1] = 1
    /\ frame.data[2] = 50
    /\ frame.data[4] = 2
    /\ frame.data[7] = 255
    /\ dist = 306
    /\ status = 2

\* The positions of main() inside the handling of a frame that passed the
\* filter, before its status frame is sent.
HandlingPcs == {"crc_fail_duty", "crc_fail_send", "apply_duty", "send_brake"}

\* C12: the status frames sent are, in receive order, one per frame that
\* passed the filter: the decided command for a valid frame, [0,0] for a
\* corrupted one.  At most the frame being handled has no status frame yet,
\* none is owed when the next frame is read, and the duty write of a valid
\* frame is made before its status frame.
C12_StatusFramesInOrder ==
    /\ Len(log.received) = log.passed
    /\ Len(sent) = (IF pc \in HandlingPcs THEN log.passed - 1 ELSE log.passed)
    /\ \A i \in 1..Len(sent) :
          /\ sent[i].can_id = BRAKE_CAN_ID
          /\ sent[i].data = (IF log.received[i].valid
                             THEN log.received[i].command ELSE <<0, 0>>)
    /\ pc = "read" => frame = NoFrame /\ ~log.duty_called
    /\ (pc = "send_brake" \/ (pc = "iter_end" /\ ValidFrame)) => log.duty_called

\* C12 witness: a valid frame that decided {0,0}, a valid frame that decided
\* {1,100} and a corrupted frame were received, and [0,0], [1,100], [0,0]
\* were sent.
C12_Witness ==
    /\ pc = "iter_end"
    /\ CorruptedFrame
    /\ log.passed = 3
    /\ log.received[1] = [valid |-> TRUE, command |-> <<0, 0>>]
    /\ log.received[2] = [valid |-> TRUE, command |-> <<1, 100>>]
    /\ ~log.received[3].valid
    /\ [i \in 1..3 |-> sent[i].data] = <<<<0, 0>>, <<1, 100>>, <<0, 0>>>>

\* A frame with extended addressing, or a payload length other than 8, or
\* an identifier other than 0x100.
ForeignFrame(f) == f.eff \/ f.can_dlc # 8 \/ f.can_id # 256

\* C13: a frame with extended addressing, a payload length other than 8 or
\* another identifier is only read: its iteration ends at once (it is never
\* checked, parsed or decided on), with no duty write, no status frame and
\* no exit from the loop.
C13_ForeignFramesIgnored ==
    (frame # NoFrame /\ ForeignFrame(frame)) =>
        /\ pc = "iter_end"
        /\ ~log.duty_called
        /\ Len(sent) = log.passed
        /\ Len(log.received) = log.passed
        /\ dist = 0 /\ status = 0
        /\ brake_state = 0 /\ brake_percent = 0 /\ duty_ns = 0
        /\ log.exit_path = "running"

\* C13 witness: after a frame that set full braking, an extended frame with
\* the identifier bits 0x100 and a correct check byte has been read, and
\* the duty and the status frames are as that first frame left them.
C13_Witness ==
    /\ pc = "iter_end"
    /\ frame # NoFrame
    /\ frame.eff
    /\ frame.can_dlc = 8
    /\ CrcOk(frame)
    /\ log.passed = 1
    /\ Len(sent) = 1
    /\ sent[1].data = <<1, 100>>
    /\ hw_duty = cfg.period_ns

\* The positions of main() inside the loop of lines 313-396.
LoopPcs == {"loop_top", "read", "iter_end"} \cup HandlingPcs
\* The positions of main() from the cleanup on.
TeardownPcs == {"cleanup_disable", "cleanup_unexport", "return", "done"}

\* C14: once keep_running is 0 while main() is in the loop, the loop is
\* left and the cleanup starts, in every run in which the process keeps
\* being scheduled, also when no further frame arrives.
C14_ShutdownLeavesLoop ==
    (keep_running = 0 /\ pc \in LoopPcs) ~> (pc \in TeardownPcs)

\* C14 failing run: the flag is set and main() is in the read of line 314
\* with no frame.
C14_FailingRun ==
    /\ pc = "read"
    /\ keep_running = 0
    /\ frame = NoFrame
    /\ log.exit_path = "running"

\* C15: after a read error other than EINTR no frame is handled any more
\* (main() is in the cleanup, with no status frame owed), and main()
\* returns with the cleanup run once: enable written 0 if pwm_enabled was
\* set, the unexport written if and only if this process exported the
\* channel, and the socket closed.
C15_ReceiveErrorTearsDown ==
    log.exit_path = "recv_error" =>
        /\ pc \in TeardownPcs
        /\ frame = NoFrame
        /\ Len(sent) = log.passed
        /\ pc = "done" =>
              /\ log.teardowns = 1
              /\ ~can_sock
              /\ log.disable \in {"not_enabled", "ok", "failed"}
              /\ log.disable # "failed" => pwm_enabled = 0
              /\ log.disable = "ok" => ~hw_enabled
              /\ log.unexport_writes = exported_by_us

\* C15 witness: a run that exported and enabled the channel and handled a
\* frame ended on a read error, with the channel disabled and unexported.
C15_Witness ==
    /\ pc = "done"
    /\ log.exit_path = "recv_error"
    /\ log.passed >= 1
    /\ exported_by_us = 1
    /\ log.unexport_writes = 1
    /\ log.disable = "ok"
    /\ ~hw_exists
    /\ ~can_sock

\* C16: when the enable write of line 294 has failed, main() goes on: it
\* returns only for a failed CAN setup, a shutdown or a read error, and for
\* each valid frame it handles it calls pwm_set_duty_ns and sends the status
\* frame of the decided command.
C16_FailedEnableIsNotFatal ==
    log.enable = "failed" =>
        /\ pc # "enable"
        /\ pc = "done" => log.exit_path \in {"can_setup_failed", "shutdown",
                                               "recv_error"}
        /\ pc = "send_brake" => log.duty_called
        /\ (pc = "iter_end" /\ ValidFrame) =>
              /\ log.duty_called
              /\ Len(sent) = log.passed
              /\ LastSent = BrakeFrame(brake_state, brake_percent)

\* C16 witness: the enable failed, the loop was entered, and a valid frame
\* at 50 mm had its duty written and [1,100] sent.
C16_Witness ==
    /\ log.enable = "failed"
    /\ log.loop_entered
    /\ pc = "iter_end"
    /\ ValidFrame
    /\ dist = 50
    /\ status = 0
    /\ log.duty_called
    /\ log.duty_rc = 0
    /\ hw_duty = cfg.period_ns
    /\ LastSent.data = <<1, 100>>

\* C17: when the duty write for a valid frame has failed, main() stays in
\* the loop and the status frame sent for that frame is the decided command
\* {brake_state, brake_percent}, whatever the duty register holds.
C17_FailedDutyWriteStillReports ==
    (pc \in {"send_brake", "iter_end"} /\ ValidFrame /\ log.duty_rc = -1) =>
        /\ log.duty_called
        /\ log.exit_path = "running"
        /\ <<brake_state, brake_percent>> = log.received[log.passed].command
        /\ pc = "iter_end" =>
              /\ Len(sent) = log.passed
              /\ LastSent = BrakeFrame(brake_state, brake_percent)

\* C17 witness: the duty write for a valid frame at 50 mm failed, the
\* register still holds 0, and [1,100] was sent.
C17_Witness ==
    /\ pc = "iter_end"
    /\ ValidFrame
    /\ dist = 50
    /\ status = 0
    /\ log.duty_rc = -1
    /\ hw_duty = 0
    /\ duty_ns = cfg.period_ns
    /\ LastSent.data = <<1, 100>>

\* The first cleanup sequence left nothing to do: pwm_enabled is 0, and a
\* channel this process exported is gone.
TornDown(ses) ==
    /\ ses.pwm_enabled = 0
    /\ ses.exported_by_us = 1 => ~ses.hw_exists

\* C18: when the cleanup sequence has run a second time, at most one
\* unexport was ever written, and a session the first run had torn down is
\* as the first run left it.
C18_TeardownIdempotent ==
    (pc = "return" /\ log.teardowns = 2) =>
        /\ log.unexport_writes <= 1
        /\ TornDown(log.closed) => Session = log.closed

\* C18 failing run: a channel this process exported was disabled and
\* unexported by the first cleanup sequence, and the second one wrote the
\* unexport again.
C18_FailingRun ==
    /\ pc = "return"
    /\ log.teardowns = 2
    /\ exported_by_us = 1
    /\ TornDown(log.closed)
    /\ Session = log.closed
    /\ log.unexport_writes = 2

\* C19: every status frame handed to write() has can_dlc 2 and two payload
\* bytes, byte 0 in {0,1} and byte 1 in 0..100, for the decisions on every
\* probed distance and status under every probed configuration with
\* threshold_mm > min_distance_mm, those outside 0..65535 included.
C19_StatusFrameShape ==
    \A i \in 1..Len(sent) :
        /\ sent[i].can_id = BRAKE_CAN_ID
        /\ sent[i].can_dlc = 2
        /\ Len(sent[i].data) = 2
        /\ sent[i].data[1] \in {0, 1}
        /\ sent[i].data[2] \in 0..100

\* C19 witness: the status frame of a decision strictly between the bounds
\* is [1,57].
C19_Witness ==
    /\ ProbedOk
    /\ cfg.min_distance_mm < dist
    /\ dist < cfg.threshold_mm
    /\ Len(sent) = 1
    /\ sent[1].can_dlc = 2
    /\ sent[1].data = <<1, 57>>

\* C20: with keep_running 0, a frame that passed the filter is still
\* handled to the end: main() stays in the loop while it handles the frame,
\* and at the end of the iteration its status frame has been sent and
\* pwm_set_duty_ns has been called for it (for a valid frame; for a corrupted
\* one where line 338 lets it).  The loop is left for the shutdown only with
\* no frame in hand and no status frame owed.
C20_FrameHandledDespiteShutdown ==
    /\ (keep_running = 0 /\ pc \in HandlingPcs) =>
          /\ log.exit_path = "running"
          /\ frame # NoFrame /\ PassesFilter(frame)
    /\ (keep_running = 0 /\ pc = "iter_end" /\ frame # NoFrame
            /\ PassesFilter(frame)) =>
          /\ log.exit_path = "running"
          /\ Len(sent) = log.passed
          /\ LastSent.data = (IF CrcOk(frame) THEN log.received[log.passed].command
                              ELSE <<0, 0>>)
          /\ (CrcOk(frame) \/ pwm_enabled # 0) => log.duty_called
    /\ log.exit_path = "shutdown" =>
          /\ pc \in TeardownPcs
          /\ frame = NoFrame
          /\ Len(sent) = log.passed

\* C20 witness: the handler ran while a valid frame at 50 mm was being
\* handled; its duty was written and its [1,100] sent, and then the loop was
\* left for the shutdown.
C20_Witness ==
    /\ log.stop_in_frame
    /\ log.exit_path = "shutdown"
    /\ pc = "cleanup_disable"
    /\ log.passed = 1
    /\ log.received[1] = [valid |-> TRUE, command |-> <<1, 100>>]
    /\ sent = <<BrakeFrame(1, 100)>>
    /\ log.duty_rc = 0
    /\ hw_duty = cfg.period_ns

\* C21: when the enable write of line 294 has just succeeded (main() is at
\* line 301 and the write returned 0), the channel is enabled and its duty
\* register is 0, whether the channel was exported by this process or
\* adopted with a duty already in it.
C21_NeverStartsEnergized ==
    (pc = "can_setup" /\ log.enable = "ok") =>
        /\ hw_enabled
        /\ hw_duty = 0

\* C21 failing run: an adopted channel carried the duty 500; the write of 0
\* to duty_cycle at line 293 failed and the write of 1 to enable succeeded.
C21_FailingRun ==
    /\ pc = "can_setup"
    /\ log.existed_at_start
    /\ log.duty_rc = -1
    /\ log.enable = "ok"
    /\ pwm_enabled = 1
    /\ hw_enabled
    /\ hw_duty = 500

\* period_ns * percent / 100 rounded down, in exact arithmetic.
ShareOfPeriod(period_ns, percent) == WideDiv(WideMul(period_ns, percent), 100)

\* C22: for every probed valid frame and every probed period_ns, the
\* duty_ns of line 382 is floor(period_ns * brake_percent / 100) for the
\* brake_percent decided for the frame, it is at most period_ns, and it is
\* what a successful pwm_set_duty_ns left in duty_cycle.
C22_DutyIsShareOfPeriod ==
    frame # NoFrame =>
        /\ duty_ns = ShareOfPeriod(cfg.period_ns, brake_percent)
        /\ WideLeq(duty_ns, cfg.period_ns)
        /\ log.duty_rc = 0 => hw_duty = duty_ns

\* C22 failing run: period_ns is ULONG_MAX (64 bits) and a frame at 175 mm
\* decides 50 percent; the product wraps modulo 2^64, and the duty written
\* is 184467440737095515 instead of 9223372036854775807.
C22_FailingRun ==
    /\ cfg.period_ns = ULONG_MAX_64
    /\ frame # NoFrame
    /\ dist = 175
    /\ brake_percent = 50
    /\ ShareOfPeriod(cfg.period_ns, brake_percent) = <<Limb - 1, Limb - 1, Limb - 1, 32767, 0>>
    /\ duty_ns = <<36699, 62914, 23592, 655, 0>>
    /\ log.duty_rc = 0
    /\ hw_duty = duty_ns

\* C23: in the cleanup of main(), once pwm_cleanup_unexport has written the
\* unexport, pwm_cleanup_disable has already run (it wrote 0 to enable
\* exactly if pwm_enabled was 1, that is if the enable of line 294 had
\* succeeded) and the unexport stays the last write to the sysfs files; the
\* CAN socket is open during the whole cleanup that follows the loop and
\* closed when main() has returned.
C23_TeardownOrder ==
    /\ log.unexport_writes > 0 =>
          /\ log.last_write = "unexport"
          /\ log.disable # "pending"
          /\ pc \in {"return", "done"}
    /\ log.disable # "pending" =>
          (log.disable = "not_enabled" <=> log.enable # "ok")
    /\ (log.exit_path \in {"shutdown", "recv_error"}
            /\ pc \in {"cleanup_disable", "cleanup_unexport", "return"}) =>
          can_sock
    /\ pc = "done" => ~can_sock

\* C23 witness: main() has returned after the loop on a channel it had
\* exported and enabled: 0 was written to enable, then the unexport was
\* written and the channel went away, then the socket was closed.
C23_Witness ==
    /\ pc = "done"
    /\ log.exit_path = "shutdown"
    /\ log.loop_entered
    /\ exported_by_us = 1
    /\ log.enable = "ok"
    /\ log.disable = "ok"
    /\ log.unexport_writes = 1
    /\ log.last_write = "unexport"
    /\ ~hw_exists
    /\ ~can_sock

\* C24: the polling loop of lines 111-114 is entered only after the export
\* was written for a channel that did not exist, and waited never exceeds 50;
\* line 115 finds the directory missing only after all 50 polls; after the
\* timeout main() has returned 1 with no period, duty_cycle or enable write
\* and without reaching the loop; and, the process being scheduled, the
\* polling always ends: main() leaves pwm_ensure_exported.
C24_ExportWaitIsBounded ==
    /\ [](/\ waited \in 0..ExportPolls
          /\ pc \in {"wait_export", "export_check"} =>
                /\ ~log.existed_at_start
                /\ log.export_writes = 1
                /\ exported_by_us = 1
          /\ (pc = "export_check" /\ ~hw_exists) => waited = ExportPolls
          /\ log.exit_path = "export_timeout" =>
                /\ pc = "done"
                /\ exit_code = 1
                /\ ~log.pwm_written
                /\ ~log.loop_entered
                /\ ~can_sock
                /\ sent = <<>>)
    /\ (pc = "wait_export") ~> (pc \notin {"wait_export", "export_check"})

\* C24 witness: the directory never appeared; after the export and the 50
\* polls main() returned 1.
C24_Witness ==
    /\ log.exit_path = "export_timeout"
    /\ pc = "done"
    /\ exit_code = 1
    /\ log.export_writes = 1
    /\ ~hw_exists
    /\ ~log.pwm_written

\* C25: in every status frame handed to write(), after valid and after
\* corrupted frames, byte 0 is 0 or 1, and it is 1 exactly if byte 1 is
\* above 0; and for a valid frame with status 0 and a distance below
\* threshold_mm whose brake_percent came out 0, brake_state is 0 and the
\* status frame sent for it is [0,0].
C25_ActiveIffPercentPositive ==
    /\ \A i \in 1..Len(sent) :
          /\ sent[i].data[1] \in {0, 1}
          /\ sent[i].data[1] = 1 <=> sent[i].data[2] > 0
    /\ (ValidFrame /\ status = 0 /\ dist < cfg.threshold_mm
            /\ brake_percent = 0) =>
          /\ brake_state = 0
          /\ pc = "iter_end" => LastSent.data = <<0, 0>>

\* C25 witness: under threshold 401 and min-distance 50, a valid frame at
\* 400 mm with status 0 (frac 1/351, percent 0) was answered with [0,0],
\* after a frame at 50 mm answered with [1,100].
C25_Witness ==
    /\ pc = "iter_end"
    /\ ValidFrame
    /\ status = 0
    /\ cfg.threshold_mm = 401
    /\ dist = 400
    /\ brake_percent = 0
    /\ brake_state = 0
    /\ Len(sent) = 2
    /\ sent[1].data = <<1, 100>>
    /\ LastSent.data = <<0, 0>>

\* The positions of main() from line 301 to its return.
AfterSetupPcs ==
    {"can_setup"} \cup LoopPcs \cup {"cleanup_disable", "cleanup_unexport", "return"}

\* C26: from line 301 on, while the channel exists, pwm_enabled is 1 exactly
\* if the enable file holds 1, whether the channel was exported by this
\* process or adopted, and whichever writes to enable failed.
C26_EnabledFlagAgrees ==
    (pc \in AfterSetupPcs /\ hw_exists) => (pwm_enabled = 1 <=> hw_enabled)

\* C26 failing run: an adopted channel was enabled at startup; the write of
\* 0 at line 286 and the write of 1 at line 294 both failed, and main()
\* waits for a frame with pwm_enabled 0 and the channel enabled.
C26_FailingRun ==
    /\ pc = "read"
    /\ log.existed_at_start
    /\ hw_exists
    /\ log.enable = "failed"
    /\ pwm_enabled = 0
    /\ hw_enabled

=============================================================================
